---- MODULE Spec2Model ----
(***************************************************************************)
(* Model of the dispatch-and-aggregation core of python-qualitybase:       *)
(*   - run_service_command   (services/utils.py, Command Dispatcher)       *)
(*   - run_command           (services/utils.py, Process Executor)         *)
(*   - summarize_results, format_results_json, format_results_table        *)
(*                           (services/utils.py, Result Aggregator)        *)
(*   - _activate_venv_if_requested (service.py) and ensure_virtualenv      *)
(*                           (services/utils.py, Environment Resolver)     *)
(* Text is modelled as a sequence of one-character strings.                *)
(***************************************************************************)
EXTENDS Integers, Sequences, FiniteSets, TLC

VARIABLES
    dispatch,   \* the last run_service_command call: its task outcome and its result
    d_printed,  \* what the dispatcher has printed so far (all calls)
    d_calls,    \* number of run_service_command calls made
    exec,       \* the last run_command call: its arguments, the child, its result
    x_calls,    \* number of run_command calls made
    results,    \* the ResultSet a task builds: sequence of [tool, result], insertion order
    colors,     \* TRUE iff the ANSI colour codes are enabled (utils.py lines 41-42)
    phase,      \* "building", then the report operation applied to the ResultSet
    summary,    \* value returned by summarize_results
    json_out,   \* text returned by format_results_json, as JSON tokens
    table_args, \* title and show_status given to format_results_table
    table_out,  \* text returned by format_results_table, or the exception raised
    flag,       \* os.environ.get("ENSURE_VIRTUALENV"): "" when unset
    is_windows, \* platform.system() == "Windows"
    fs,         \* what exists under each PROJECT_ROOT (.venv and venv directories)
    PATH,       \* os.environ["PATH"], the empty text when unset
    sys_executable, \* sys.executable
    sys_path,   \* sys.path, the directories registered for import resolution
    calls,      \* the activation operations invoked so far, oldest first
    handle,     \* VENV_DIR, VENV_BIN, PYTHON as set when services/utils.py is imported
    venv_check, \* the last check_venv_required() call: its result and what it printed
    e_out       \* what the activation operations have printed, and the exception raised

dvars == <<dispatch, d_printed, d_calls>>
xvars == <<exec, x_calls>>
rvars == <<results, colors, phase, summary, json_out, table_args, table_out>>
evars == <<flag, is_windows, fs, PATH, sys_executable, sys_path, calls, handle, venv_check,
          e_out>>
vars == <<dvars, xvars, rvars, evars>>

\* Bounds of the model.
MaxCalls == 2
MaxExecCalls == 2
MaxTools == 2
MaxActivations == 2

(***************************************************************************)
(* Python values, reduced to what truth-testing reads.                     *)
(***************************************************************************)
PyNone == [t |-> "none", n |-> 0]
PyBool(b) == [t |-> "bool", n |-> IF b THEN 1 ELSE 0]
PyInt(i) == [t |-> "int", n |-> i]
PyStr(len) == [t |-> "str", n |-> len]

\* bool(x): None, False, 0 and "" are false, everything else is true.
Truthy(x) == x.t # "none" /\ x.n # 0

ReturnValues ==
    {PyBool(TRUE), PyBool(FALSE), PyNone} \cup {PyInt(i) : i \in {0, 1, 2}}
        \cup {PyStr(l) : l \in {0, 2}}

(***************************************************************************)
(* Conditions a task can raise.  ExceptionClasses derive from Exception;   *)
(* BaseOnlyClasses derive from BaseException but not from Exception.       *)
(***************************************************************************)
ExceptionClasses == {"ValueError", "RuntimeError", "OSError"}
BaseOnlyClasses == {"KeyboardInterrupt", "SystemExit", "GeneratorExit"}
Messages == {"", "boom"}

Return(v) == [kind |-> "return", value |-> v, cls |-> "", msg |-> ""]
Raise(c, m) == [kind |-> "raise", value |-> PyNone, cls |-> c, msg |-> m]

TaskOutcomes ==
    {Return(v) : v \in ReturnValues}
        \cup {Raise(c, m) : c \in ExceptionClasses \cup BaseOnlyClasses, m \in Messages}

Event(fn, text, arg) == [fn |-> fn, text |-> text, arg |-> arg]

\* "except Exception" matches the classes derived from Exception only.
IsException(cls) == cls \in ExceptionClasses

\* exit_code of a call that returned no exit code.
NoCode == 0 - 1
Returned(code, out) == [returned |-> TRUE, exit_code |-> code, raised |-> "", out |-> out]
Propagated(cls) == [returned |-> FALSE, exit_code |-> NoCode, raised |-> cls, out |-> <<>>]

\* Mutant of run_service_command: the KeyboardInterrupt handler is missing.
run_service_command_NoInterruptHandler(outcome) ==
    IF outcome.kind = "return"
    THEN Returned(IF Truthy(outcome.value) THEN 0 ELSE 1, <<>>)
    ELSE IF IsException(outcome.cls)
    THEN Returned(1, <<Event("print_error", "Error: ", outcome.msg),
                       Event("traceback.print_exc", "", outcome.cls)>>)
    ELSE Propagated(outcome.cls)

\* Mutant of run_service_command: the interruption is reported like an error.
run_service_command_InterruptAsError(outcome) ==
    IF outcome.kind = "return"
    THEN Returned(IF Truthy(outcome.value) THEN 0 ELSE 1, <<>>)
    ELSE IF IsException(outcome.cls) \/ outcome.cls = "KeyboardInterrupt"
    THEN Returned(1, <<Event("print_error", "Error: ", outcome.msg),
                       Event("traceback.print_exc", "", outcome.cls)>>)
    ELSE Propagated(outcome.cls)

\* run_service_command(command_func, *args, **kwargs), given how the task ends.
run_service_command(outcome) ==
    IF outcome.kind = "return"
    THEN Returned(IF Truthy(outcome.value) THEN 0 ELSE 1, <<>>)
    ELSE IF outcome.cls = "KeyboardInterrupt"
    THEN Returned(130, <<Event("print_warning", "\nOperation cancelled by user.", "")>>)
    ELSE IF IsException(outcome.cls)
    THEN Returned(1, <<Event("print_error", "Error: ", outcome.msg),
                       Event("traceback.print_exc", "", outcome.cls)>>)
    ELSE Propagated(outcome.cls)

NoCall == [outcome |-> Return(PyNone), result |-> Returned(NoCode, <<>>)]

InitDispatch ==
    /\ dispatch = NoCall
    /\ d_printed = <<>>
    /\ d_calls = 0

\* One call of run_service_command; a condition that escapes ends the process.
RunServiceCommand ==
    /\ d_calls < MaxCalls
    /\ dispatch.result.returned
    /\ \E o \in TaskOutcomes :
        /\ dispatch' = [outcome |-> o, result |-> run_service_command(o)]
        /\ d_printed' = d_printed \o run_service_command(o).out
    /\ d_calls' = d_calls + 1
    /\ UNCHANGED <<xvars, rvars, evars>>

(***************************************************************************)
(* Process Executor                                                        *)
(***************************************************************************)
None == [some |-> FALSE, text |-> ""]
Some(s) == [some |-> TRUE, text |-> s]

Commands == {<<"ruff">>, <<"ruff", "check">>}
ExitCodes == {0, 1, 2}
StdoutTexts == {"", "ok\n"}

\* What the operating system does with the child: the launch fails, or the
\* child runs to completion with an exit code and a standard output text.
Child(launch, rc, text) == [launch |-> launch, returncode |-> rc, stdout |-> text]
Children ==
    {Child("not_found", 0, ""), Child("permission_denied", 0, "")}
        \cup {Child("ok", rc, s) : rc \in ExitCodes, s \in StdoutTexts}

\* subprocess.run(cmd, check=, capture_output=, text=): the CompletedProcess or
\* the exception raised.  stdout is None unless the output is captured.
subprocess_run(cmd, check, capture_output, child) ==
    LET out == IF capture_output THEN Some(child.stdout) ELSE None IN
    CASE child.launch = "not_found" ->
            [raised |-> "FileNotFoundError", returncode |-> 0, stdout |-> None]
      [] child.launch = "permission_denied" ->
            [raised |-> "PermissionError", returncode |-> 0, stdout |-> None]
      [] OTHER ->
            IF check /\ child.returncode # 0
            THEN [raised |-> "CalledProcessError", returncode |-> child.returncode,
                  stdout |-> out]
            ELSE [raised |-> "", returncode |-> child.returncode, stdout |-> out]

Tuple(ok, output, out) == [raised |-> "", ok |-> ok, output |-> output, out |-> out]
Escaped(cls, out) == [raised |-> cls, ok |-> FALSE, output |-> None, out |-> out]

\* Mutant of run_command: the CalledProcessError handler drops the captured output.
run_command_DropOutput(cmd, check, capture_output, child) ==
    LET r == subprocess_run(cmd, check, capture_output, child)
        running == <<Event("print_info", "Running: ", cmd)>>
    IN  CASE r.raised = "" ->
                Tuple(r.returncode = 0, IF capture_output THEN r.stdout ELSE None, running)
          [] r.raised = "CalledProcessError" ->
                Tuple(FALSE, None,
                      running \o <<Event("print_error", "Command exited with code ",
                                         <<ToString(r.returncode)>>)>>)
          [] r.raised = "FileNotFoundError" ->
                Tuple(FALSE, None,
                      running \o <<Event("print_error", "Command not found: ", <<cmd[1]>>)>>)
          [] OTHER -> Escaped(r.raised, running)

\* run_command(cmd, check, capture_output), given what the child does.
run_command(cmd, check, capture_output, child) ==
    LET r == subprocess_run(cmd, check, capture_output, child)
        running == <<Event("print_info", "Running: ", cmd)>>
    IN  CASE r.raised = "" ->
                Tuple(r.returncode = 0, IF capture_output THEN r.stdout ELSE None, running)
          [] r.raised = "CalledProcessError" ->
                Tuple(FALSE, IF capture_output THEN r.stdout ELSE None,
                      running \o <<Event("print_error", "Command exited with code ",
                                         <<ToString(r.returncode)>>)>>)
          [] r.raised = "FileNotFoundError" ->
                Tuple(FALSE, None,
                      running \o <<Event("print_error", "Command not found: ", <<cmd[1]>>)>>)
          [] OTHER -> Escaped(r.raised, running)

NoExec ==
    [cmd |-> <<"ruff">>, check |-> TRUE, capture_output |-> FALSE,
     child |-> Child("ok", 0, ""), result |-> Tuple(TRUE, None, <<>>)]

InitExec ==
    /\ exec = NoExec
    /\ x_calls = 0

\* One call of run_command; an exception that escapes ends the calling task.
RunCommand ==
    /\ x_calls < MaxExecCalls
    /\ exec.result.raised = ""
    /\ \E cmd \in Commands, check \in BOOLEAN, capture_output \in BOOLEAN, child \in Children :
        exec' = [cmd |-> cmd, check |-> check, capture_output |-> capture_output,
                 child |-> child,
                 result |-> run_command(cmd, check, capture_output, child)]
    /\ x_calls' = x_calls + 1
    /\ UNCHANGED <<dvars, rvars, evars>>

(***************************************************************************)
(* Text helpers: a text is a sequence of one-character strings.            *)
(***************************************************************************)
Rep(c, n) == [i \in 1..n |-> c]

\* f"{s:<{w}}": pads with spaces up to w, never cuts.
LJust(s, w) == IF Len(s) >= w THEN s ELSE s \o Rep(" ", w - Len(s))

DigitChar == <<"0", "1", "2", "3", "4", "5", "6", "7", "8", "9">>

RECURSIVE Digits(_)
\* str(n) of an integer n >= 0.
Digits(n) == IF n < 10 THEN <<DigitChar[n + 1]>> ELSE Digits(n \div 10) \o <<DigitChar[(n % 10) + 1]>>

RECURSIVE Join(_, _)
\* sep.join(lines)
Join(lines, sep) ==
    IF Len(lines) = 0 THEN <<>>
    ELSE IF Len(lines) = 1 THEN lines[1]
    ELSE lines[1] \o sep \o Join(Tail(lines), sep)

\* s.split(c): the pieces of s between the occurrences of the character c.
Split(s, c) ==
    LET at == {i \in 1..Len(s) : s[i] = c}
        n == Cardinality(at)
        pos(k) == IF k = 0 THEN 0
                  ELSE IF k = n + 1 THEN Len(s) + 1
                  ELSE CHOOSE p \in at : Cardinality({q \in at : q < p}) = k - 1
    IN  [k \in 1..(n + 1) |-> SubSeq(s, pos(k - 1) + 1, pos(k) - 1)]

Max(a, b) == IF a >= b THEN a ELSE b

(***************************************************************************)
(* Result Aggregator & Renderer                                            *)
(***************************************************************************)
Keys == {"status", "details", "errors", "warnings"}

\* A ToolResult: a plain boolean, or a dict holding the keys of `has`.
Plain(b) ==
    [isdict |-> FALSE, b |-> b, has |-> {}, status |-> FALSE, details |-> <<>>,
     errors |-> 0, warnings |-> 0]
Dict(has, status, details, errors, warnings) ==
    [isdict |-> TRUE, b |-> FALSE, has |-> has,
     status |-> IF "status" \in has THEN status ELSE FALSE,
     details |-> IF "details" \in has THEN details ELSE <<>>,
     errors |-> IF "errors" \in has THEN errors ELSE 0,
     warnings |-> IF "warnings" \in has THEN warnings ELSE 0]

\* result.get(key, default) for each key read by the code.
GetStatus(d) == IF "status" \in d.has THEN d.status ELSE FALSE
GetDetails(d) == IF "details" \in d.has THEN d.details ELSE <<>>
GetErrors(d) == IF "errors" \in d.has THEN d.errors ELSE 0
GetWarnings(d) == IF "warnings" \in d.has THEN d.warnings ELSE 0

details_width == 50
status_width == 10
min_tool_width == 20
rule_length == 70

Ok2 == <<"o", "k">>
Exactly50 == Rep("d", details_width)
Long51 == Rep("x", details_width) \o <<"y">>

ToolNames == {<<"l", "i", "n", "t">>, <<"t", "y", "p", "e", "s">>, Rep("s", min_tool_width)}

ToolResults ==
    {Plain(TRUE), Plain(FALSE),
     Dict({}, FALSE, <<>>, 0, 0),
     Dict({"status"}, TRUE, <<>>, 0, 0),
     Dict({"status"}, FALSE, <<>>, 0, 0),
     Dict({"status", "details"}, TRUE, Ok2, 0, 0),
     Dict({"status", "details"}, TRUE, Exactly50, 0, 0),
     Dict({"status", "details"}, FALSE, Long51, 0, 0),
     Dict({"status", "errors", "warnings"}, FALSE, <<>>, 3, 1),
     Dict({"details", "warnings"}, FALSE, Ok2, 0, 12),
     Dict(Keys, TRUE, Ok2, 0, 0),
     Dict(Keys, FALSE, Long51, 0, 0),
     Dict(Keys, FALSE, Long51, 2, 0)}

Tools(rs) == {rs[i].tool : i \in 1..Len(rs)}

\* A rational number in lowest terms; Python's float / is exact division here.
RECURSIVE Gcd(_, _)
Gcd(a, b) == IF b = 0 THEN a ELSE Gcd(b, a % b)
Ratio(num, den) == [num |-> num \div Gcd(num, den), den |-> den \div Gcd(num, den)]
Zero == [num |-> 0, den |-> 1]

\* The status the summary loop reads for one entry (lines 346-351).
EntryStatus(r) == IF r.isdict THEN GetStatus(r) ELSE r.b

RECURSIVE CountPassed(_)
CountPassed(rs) ==
    IF Len(rs) = 0 THEN 0
    ELSE (IF EntryStatus(rs[1].result) THEN 1 ELSE 0) + CountPassed(Tail(rs))

RECURSIVE CountFailed(_)
CountFailed(rs) ==
    IF Len(rs) = 0 THEN 0
    ELSE (IF EntryStatus(rs[1].result) THEN 0 ELSE 1) + CountFailed(Tail(rs))

\* Mutant: an entry counts as failed only when it carries a status.
RECURSIVE CountFailed_OnlyWithStatus(_)
CountFailed_OnlyWithStatus(rs) ==
    IF Len(rs) = 0 THEN 0
    ELSE (IF (~rs[1].result.isdict \/ "status" \in rs[1].result.has)
              /\ ~EntryStatus(rs[1].result) THEN 1 ELSE 0)
         + CountFailed_OnlyWithStatus(Tail(rs))

RECURSIVE SumErrors(_)
SumErrors(rs) ==
    IF Len(rs) = 0 THEN 0
    ELSE (IF rs[1].result.isdict THEN GetErrors(rs[1].result) ELSE 0) + SumErrors(Tail(rs))

RECURSIVE SumWarnings(_)
SumWarnings(rs) ==
    IF Len(rs) = 0 THEN 0
    ELSE (IF rs[1].result.isdict THEN GetWarnings(rs[1].result) ELSE 0)
         + SumWarnings(Tail(rs))

\* Mutant of success_rate: the failed share instead of the passed share.
success_rate_OfFailed(passed, total) ==
    IF total > 0 THEN Ratio((total - passed) * 100, total) ELSE Zero

\* (passed / total * 100) if total > 0 else 0
success_rate(passed, total) ==
    IF total > 0 THEN Ratio(passed * 100, total) ELSE Zero

\* Mutant of summarize_results: an entry without a status is not counted as failed.
summarize_results_SkipsMissingStatus(rs) ==
    [total |-> Len(rs),
     passed |-> CountPassed(rs),
     failed |-> CountFailed_OnlyWithStatus(rs),
     success_rate |-> success_rate(CountPassed(rs), Len(rs)),
     total_errors |-> SumErrors(rs),
     total_warnings |-> SumWarnings(rs)]

\* summarize_results(results)
summarize_results(rs) ==
    [total |-> Len(rs),
     passed |-> CountPassed(rs),
     failed |-> CountFailed(rs),
     success_rate |-> success_rate(CountPassed(rs), Len(rs)),
     total_errors |-> SumErrors(rs),
     total_warnings |-> SumWarnings(rs)]

NoSummary ==
    [total |-> 0, passed |-> 0, failed |-> 0, success_rate |-> Zero,
     total_errors |-> 0, total_warnings |-> 0]


(***************************************************************************)
(* JSON: json.dumps(obj, indent=2) as a sequence of tokens, and json.loads *)
(* reading the tokens back.  Within an entry the keys are written in the   *)
(* order of KeyOrder.                                                      *)
(***************************************************************************)
Tok(t) == [t |-> t, k |-> "", s |-> <<>>, n |-> 0]
TKey(k) == [t |-> "key", k |-> k, s |-> <<>>, n |-> 0]
TStr(s) == [t |-> "str", k |-> "", s |-> s, n |-> 0]
TNum(n) == [t |-> "num", k |-> "", s |-> <<>>, n |-> n]
TWs(n) == [t |-> "ws", k |-> "", s |-> <<>>, n |-> n]

KeyOrder == <<"status", "details", "errors", "warnings">>

ValueToken(d, k) ==
    CASE k = "status" -> IF d.status THEN Tok("true") ELSE Tok("false")
      [] k = "details" -> TStr(d.details)
      [] k = "errors" -> TNum(d.errors)
      [] OTHER -> TNum(d.warnings)

RECURSIVE DumpMembers(_, _, _)
\* The members of one entry from key i on; `first` iff none was written yet.
DumpMembers(d, i, first) ==
    IF i > Len(KeyOrder) THEN <<>>
    ELSE IF KeyOrder[i] \notin d.has THEN DumpMembers(d, i + 1, first)
    ELSE (IF first THEN <<>> ELSE <<Tok(",")>>)
         \o <<TWs(4), TKey(KeyOrder[i]), Tok(":"), ValueToken(d, KeyOrder[i])>>
         \o DumpMembers(d, i + 1, FALSE)

DumpEntry(d) ==
    IF d.has = {} THEN <<Tok("{"), Tok("}")>>
    ELSE <<Tok("{")>> \o DumpMembers(d, 1, TRUE) \o <<TWs(2), Tok("}")>>

RECURSIVE DumpItems(_, _)
DumpItems(js, i) ==
    IF i > Len(js) THEN <<>>
    ELSE (IF i = 1 THEN <<>> ELSE <<Tok(",")>>)
         \o <<TWs(2), TStr(js[i].tool), Tok(":")>> \o DumpEntry(js[i].result)
         \o DumpItems(js, i + 1)

\* json.dumps(json_results, indent=2)
json_dumps(js) ==
    IF Len(js) = 0 THEN <<Tok("{"), Tok("}")>>
    ELSE <<Tok("{")>> \o DumpItems(js, 1) \o <<TWs(0), Tok("}")>>

\* The value stored in json_results for one entry (lines 300-303).
JsonEntry(r) ==
    IF r.isdict THEN r ELSE Dict({"status"}, r.b, <<>>, 0, 0)

\* format_results_json(results)
format_results_json(rs) ==
    json_dumps([i \in 1..Len(rs) |-> [tool |-> rs[i].tool, result |-> JsonEntry(rs[i].result)]])

IsNotWs(tok) == tok.t # "ws"

SetKey(d, k, tok) ==
    CASE k = "status" -> [d EXCEPT !.has = @ \cup {k}, !.status = (tok.t = "true")]
      [] k = "details" -> [d EXCEPT !.has = @ \cup {k}, !.details = tok.s]
      [] k = "errors" -> [d EXCEPT !.has = @ \cup {k}, !.errors = tok.n]
      [] OTHER -> [d EXCEPT !.has = @ \cup {k}, !.warnings = tok.n]

RECURSIVE ParseMembers(_, _, _)
\* Reads the members of an entry; toks[i] is a key or the closing brace.
\* Returns the entry and the index after its closing brace.
ParseMembers(toks, i, d) ==
    IF toks[i].t = "}" THEN [value |-> d, next |-> i + 1]
    ELSE IF toks[i].t = "," THEN ParseMembers(toks, i + 1, d)
    ELSE ParseMembers(toks, i + 3, SetKey(d, toks[i].k, toks[i + 2]))

RECURSIVE ParseItems(_, _)
\* Reads the tools of the document; toks[i] is a tool name or the closing brace.
ParseItems(toks, i) ==
    IF toks[i].t = "}" THEN <<>>
    ELSE IF toks[i].t = "," THEN ParseItems(toks, i + 1)
    ELSE LET e == ParseMembers(toks, i + 3, Dict({}, FALSE, <<>>, 0, 0))
         IN  <<[tool |-> toks[i].s, result |-> e.value]>> \o ParseItems(toks, e.next)

\* json.loads(text): the tools in document order, each with its parsed entry.
json_loads(toks) == ParseItems(SelectSeq(toks, IsNotWs), 2)


(***************************************************************************)
(* Table rendering.  "ESC" stands for the escape character, "CHECK" and    *)
(* "CROSS" for the pass and fail glyphs; each is one character.            *)
(***************************************************************************)
GREEN(col) == IF col THEN <<"ESC", "[", "9", "2", "m">> ELSE <<>>
RED(col) == IF col THEN <<"ESC", "[", "9", "1", "m">> ELSE <<>>
NC(col) == IF col THEN <<"ESC", "[", "0", "m">> ELSE <<>>

\* +9 for ANSI codes (line 281)
ansi_allowance == 9

NL == <<"\n">>

RECURSIVE MaxToolLen(_)
\* max(len(str(k)) for k in results), for a non-empty ResultSet
MaxToolLen(rs) ==
    IF Len(rs) = 1 THEN Len(rs[1].tool) ELSE Max(Len(rs[1].tool), MaxToolLen(Tail(rs)))

ToolWidth(rs) == Max(MaxToolLen(rs) + 2, min_tool_width)

\* f"Errors: {errors}, Warnings: {warnings}"
ErrorsWarnings(errors, warnings) ==
    <<"E", "r", "r", "o", "r", "s", ":", " ">> \o Digits(errors)
        \o <<",", " ", "W", "a", "r", "n", "i", "n", "g", "s", ":", " ">> \o Digits(warnings)

\* The details text of one row (lines 267-276).
RowDetails(r) ==
    IF r.isdict
    THEN IF GetErrors(r) # 0 \/ GetWarnings(r) # 0
         THEN ErrorsWarnings(GetErrors(r), GetWarnings(r))
         ELSE GetDetails(r)
    ELSE <<>>

StatusStr(status, col) ==
    IF status
    THEN GREEN(col) \o <<"CHECK", " ", "P", "A", "S", "S">> \o NC(col)
    ELSE RED(col) \o <<"CROSS", " ", "F", "A", "I", "L">> \o NC(col)

\* f"{details:<{details_width}}" (line 282)
DetailsCell(details) == LJust(details, details_width)

\* One row of the table (lines 278-283).
Row(e, tool_width, show_status, col) ==
    LJust(e.tool, tool_width)
        \o (IF show_status
            THEN <<" ">> \o LJust(StatusStr(EntryStatus(e.result), col),
                                  status_width + ansi_allowance)
            ELSE <<>>)
        \o <<" ">> \o DetailsCell(RowDetails(e.result))

Header(tool_width, show_status) ==
    LJust(<<"T", "o", "o", "l">>, tool_width)
        \o (IF show_status
            THEN <<" ">> \o LJust(<<"S", "t", "a", "t", "u", "s">>, status_width)
            ELSE <<>>)
        \o <<" ">> \o LJust(<<"D", "e", "t", "a", "i", "l", "s">>, details_width)

\* format_results_table(results, title, show_status); an empty title stands for
\* None as well.  max() of an empty ResultSet raises ValueError.
format_results_table(rs, title, show_status, col) ==
    IF Len(rs) = 0 THEN [raised |-> "ValueError", text |-> <<>>]
    ELSE LET tw == ToolWidth(rs)
             head == (IF Len(title) > 0
                      THEN <<NL \o title, Rep("=", rule_length)>>
                      ELSE <<>>)
                     \o <<Header(tw, show_status), Rep("-", rule_length)>>
             rows == [i \in 1..Len(rs) |-> Row(rs[i], tw, show_status, col)]
         IN  [raised |-> "", text |-> Join(head \o rows, NL)]

NoTable == [raised |-> "", text |-> <<>>]
NoTitle == <<>>
Titles == {NoTitle, <<"Q", "A">>}

(***************************************************************************)
(* The task builds a ResultSet, then hands it to one report operation.     *)
(***************************************************************************)
InitResults ==
    /\ results = <<>>
    /\ colors \in BOOLEAN
    /\ phase = "building"
    /\ summary = NoSummary
    /\ json_out = <<>>
    /\ table_args = [title |-> NoTitle, show_status |-> TRUE]
    /\ table_out = NoTable

IndexOf(rs, tool) == CHOOSE i \in 1..Len(rs) : rs[i].tool = tool

\* results[tool] = result: a new tool is appended, a known tool keeps its place.
SetResult ==
    /\ phase = "building"
    /\ \E tool \in ToolNames, r \in ToolResults :
        IF tool \in Tools(results)
        THEN results' = [results EXCEPT ![IndexOf(results, tool)].result = r]
        ELSE /\ Len(results) < MaxTools
             /\ results' = Append(results, [tool |-> tool, result |-> r])
    /\ UNCHANGED <<evars, dvars, xvars, colors, phase, summary, json_out, table_args, table_out>>

Summarize ==
    /\ phase = "building"
    /\ summary' = summarize_results(results)
    /\ phase' = "summarized"
    /\ UNCHANGED <<evars, dvars, xvars, results, colors, json_out, table_args, table_out>>

FormatJson ==
    /\ phase = "building"
    /\ json_out' = format_results_json(results)
    /\ phase' = "json"
    /\ UNCHANGED <<evars, dvars, xvars, results, colors, summary, table_args, table_out>>

FormatTable ==
    /\ phase = "building"
    /\ \E title \in Titles, show_status \in BOOLEAN :
        /\ table_args' = [title |-> title, show_status |-> show_status]
        /\ table_out' = format_results_table(results, title, show_status, colors)
    /\ phase' = "table"
    /\ UNCHANGED <<evars, dvars, xvars, results, colors, summary, json_out>>


(***************************************************************************)
(* Environment Resolver and activation                                     *)
(***************************************************************************)
\* PROJECT_ROOT of service.py (line 19) and of services/utils.py (line 22).
PROJECT_ROOT(module) == IF module = "service" THEN <<"/", "p">> ELSE <<"/", "p", "/", "q">>
Modules == {"service", "utils"}

DirSep(win) == IF win THEN "\\" ELSE "/"
\* a / b of pathlib, as str() shows it
PathJoin(win, a, b) == a \o <<DirSep(win)>> \o b

DotVenv == <<".", "v", "e", "n", "v">>
Venv == <<"v", "e", "n", "v">>
BinName(win) == IF win THEN <<"S", "c", "r", "i", "p", "t", "s">> ELSE <<"b", "i", "n">>
PythonName(win) ==
    IF win THEN <<"p", "y", "t", "h", "o", "n", ".", "e", "x", "e">>
    ELSE <<"p", "y", "t", "h", "o", "n">>
\* f"python{major}.{minor}" of the running interpreter
PythonVersionDir == <<"p", "y", "t", "h", "o", "n", "3", ".", "x">>
SitePackages == <<"s", "i", "t", "e", "-", "p", "a", "c", "k", "a", "g", "e", "s">>
LibName(lib) ==
    CASE lib = "lib" -> <<"l", "i", "b">>
      [] lib = "lib64" -> <<"l", "i", "b", "6", "4">>
      [] OTHER -> <<"L", "i", "b">>

\* What exists in one environment directory: the directory, its interpreter
\* binary, and the library directories that hold a site-packages directory.
Layout(dir, python, libs) == [dir |-> dir, python |-> python, libs |-> libs]
Absent == Layout(FALSE, FALSE, {})
DotVenvLayouts ==
    {Absent, Layout(TRUE, FALSE, {}), Layout(TRUE, FALSE, {"lib"}), Layout(TRUE, TRUE, {}),
     Layout(TRUE, TRUE, {"lib"}), Layout(TRUE, TRUE, {"lib", "lib64"}),
     Layout(TRUE, TRUE, {"Lib"})}
VenvLayouts == {Absent, Layout(TRUE, FALSE, {}), Layout(TRUE, TRUE, {"lib"})}

\* candidate.exists() for PROJECT_ROOT / name
DirExists(f, module, name) == IF name = DotVenv THEN f[module].dot.dir ELSE f[module].alt.dir
LayoutOf(f, module, name) == IF name = DotVenv THEN f[module].dot ELSE f[module].alt

preferred_names == <<DotVenv, Venv>>

\* _resolve_venv_dir(): the name of the directory under PROJECT_ROOT.
resolve_venv_name(f, module) ==
    IF DirExists(f, module, preferred_names[1]) THEN preferred_names[1]
    ELSE IF DirExists(f, module, preferred_names[2]) THEN preferred_names[2]
    ELSE preferred_names[1]

VENV_DIR(f, win, module) == PathJoin(win, PROJECT_ROOT(module), resolve_venv_name(f, module))
VENV_BIN(f, win, module) == PathJoin(win, VENV_DIR(f, win, module), BinName(win))
PYTHON(f, win, module) == PathJoin(win, VENV_BIN(f, win, module), PythonName(win))

\* venv_exists(): VENV_DIR.exists() and PYTHON.exists()
venv_exists(f, module) ==
    /\ DirExists(f, module, resolve_venv_name(f, module))
    /\ LayoutOf(f, module, resolve_venv_name(f, module)).python

\* path.exists() for the directories and interpreter binaries of the model.
PathExists(f, win, path) ==
    \E m \in Modules, name \in {DotVenv, Venv} :
        LET dir == PathJoin(win, PROJECT_ROOT(m), name)
            python == PathJoin(win, PathJoin(win, dir, BinName(win)), PythonName(win))
        IN  \/ path = dir /\ DirExists(f, m, name)
            \/ path = python /\ LayoutOf(f, m, name).python

\* The module-level names of services/utils.py (lines 85-87), set at import.
Handle(dir, bin, python) == [loaded |-> TRUE, VENV_DIR |-> dir, VENV_BIN |-> bin, PYTHON |-> python]
NoHandle == [loaded |-> FALSE, VENV_DIR |-> <<>>, VENV_BIN |-> <<>>, PYTHON |-> <<>>]
NoCheck == [called |-> FALSE, exists |-> FALSE, printed |-> <<>>]

\* Mutant of load_handle: the secondary name is tried before the preferred one.
load_handle_SecondaryFirst(f, win) ==
    LET name == IF DirExists(f, "utils", Venv) THEN Venv ELSE DotVenv
        dir == PathJoin(win, PROJECT_ROOT("utils"), name)
        bin == PathJoin(win, dir, BinName(win))
    IN  Handle(dir, bin, PathJoin(win, bin, PythonName(win)))

\* VENV_DIR = _resolve_venv_dir(); VENV_BIN = ...; PYTHON = ... (lines 85-87)
load_handle(f, win) ==
    Handle(VENV_DIR(f, win, "utils"), VENV_BIN(f, win, "utils"), PYTHON(f, win, "utils"))

\* venv_exists() on the names set at import (lines 91-93).
handle_exists(h, f, win) == PathExists(f, win, h.VENV_DIR) /\ PathExists(f, win, h.PYTHON)

\* check_venv_required() (lines 436-448): the result and what it prints.
check_venv_required(h, f, win) ==
    IF ~handle_exists(h, f, win)
    THEN [called |-> TRUE, exists |-> FALSE,
          printed |-> <<Event("print_error",
                              "Virtual environment not found. Please create one first.", "")>>]
    ELSE [called |-> TRUE, exists |-> TRUE, printed |-> <<>>]

\* sub in text, for two texts
IsSubstring(sub, text) ==
    \E i \in 0..(Len(text) - Len(sub)) : SubSeq(text, i + 1, i + Len(sub)) = sub

path_sep(win) == IF win THEN ";" ELSE ":"

\* Mutant of update_path: the directory is prepended without looking at PATH.
update_path_Always(venv_bin_str, win, current_path) ==
    venv_bin_str \o <<path_sep(win)>> \o current_path

\* _update_path(venv_bin, is_windows): the new value of PATH.
update_path(venv_bin_str, win, current_path) ==
    IF ~IsSubstring(venv_bin_str, current_path)
    THEN venv_bin_str \o <<path_sep(win)>> \o current_path
    ELSE current_path

InSeq(x, sq) == \E i \in 1..Len(sq) : sq[i] = x

\* site.addsitedir(sitedir): appended to sys.path unless already known.
addsitedir(sp, sitedir) == IF InSeq(sitedir, sp) THEN sp ELSE Append(sp, sitedir)

SiteDir(win, venv_dir, lib) ==
    IF win THEN PathJoin(win, PathJoin(win, venv_dir, LibName("Lib")), SitePackages)
    ELSE PathJoin(win, PathJoin(win, PathJoin(win, venv_dir, LibName(lib)), PythonVersionDir),
                  SitePackages)

\* _add_site_packages(venv_dir, is_windows): the new value of sys.path.
add_site_packages(venv_dir, win, layout, sp) ==
    IF win
    THEN IF "Lib" \in layout.libs THEN addsitedir(sp, SiteDir(win, venv_dir, "Lib")) ELSE sp
    ELSE LET sp1 == IF "lib" \in layout.libs
                    THEN addsitedir(sp, SiteDir(win, venv_dir, "lib")) ELSE sp
         IN  IF "lib64" \in layout.libs
             THEN addsitedir(sp1, SiteDir(win, venv_dir, "lib64")) ELSE sp1

\* Neither service.py's activation nor ensure_virtualenv has a print or a raise.
Quiet == [printed |-> <<>>, raised |-> ""]

ProcEnv(path, executable, sp, out) ==
    [PATH |-> path, sys_executable |-> executable, sys_path |-> sp, out |-> out]

\* The three effects on PROJECT_ROOT / ".venv" once its interpreter is known to
\* exist (service.py 38-40, utils.py 110-126).
Effects(module, win, f, e) ==
    LET venv_dir == PathJoin(win, PROJECT_ROOT(module), DotVenv)
        venv_bin == PathJoin(win, venv_dir, BinName(win))
        venv_python == PathJoin(win, venv_bin, PythonName(win))
    IN  ProcEnv(update_path(venv_bin, win, e.PATH),
                venv_python,
                add_site_packages(venv_dir, win, f[module].dot, e.sys_path),
                e.out)

\* Mutant of activate_venv_if_requested: ENSURE_VIRTUALENV is not looked at.
activate_venv_if_requested_NoFlag(fl, win, f, e) ==
    IF ~f["service"].dot.dir THEN e
    ELSE IF ~f["service"].dot.python THEN e
    ELSE Effects("service", win, f, e)

\* _activate_venv_if_requested() of service.py
activate_venv_if_requested(fl, win, f, e) ==
    IF fl # "1" THEN e
    ELSE IF ~f["service"].dot.dir THEN e
    ELSE IF ~f["service"].dot.python THEN e
    ELSE Effects("service", win, f, e)

\* ensure_virtualenv() of services/utils.py
ensure_virtualenv(win, f, e) ==
    IF ~f["utils"].dot.dir THEN e
    ELSE IF f["utils"].dot.python THEN Effects("utils", win, f, e)
    ELSE e

Usr == <<"/", "u">>
\* The search paths a process may start with, as lists of entries.
InitialEntries(win) ==
    LET bin_s == PathJoin(win, PathJoin(win, PROJECT_ROOT("service"), DotVenv), BinName(win))
        bin_u == PathJoin(win, PathJoin(win, PROJECT_ROOT("utils"), DotVenv), BinName(win))
    IN  {<<>>, <<Usr>>, <<bin_s, Usr>>, <<Usr, bin_s>>, <<bin_s \o <<"2">>, Usr>>,
         <<Usr, bin_u \o <<"2">>>>, <<bin_s, Usr, bin_s>>}

InitialSysPaths(win) ==
    {<<Usr>>,
     <<Usr, SiteDir(win, PathJoin(win, PROJECT_ROOT("service"), DotVenv),
                    IF win THEN "Lib" ELSE "lib")>>}

InitEnv ==
    /\ flag \in {"", "0", "1"}
    /\ is_windows \in BOOLEAN
    /\ fs \in [Modules -> [dot : DotVenvLayouts, alt : VenvLayouts]]
    /\ \E entries \in InitialEntries(is_windows) : PATH = Join(entries, <<path_sep(is_windows)>>)
    /\ sys_executable = PathJoin(is_windows, Usr, PythonName(is_windows))
    /\ sys_path \in InitialSysPaths(is_windows)
    /\ calls = <<>>
    /\ handle = NoHandle
    /\ venv_check = NoCheck
    /\ e_out = Quiet

CurrentEnv == ProcEnv(PATH, sys_executable, sys_path, e_out)

ActivateVenvIfRequested ==
    /\ Len(calls) < MaxActivations
    /\ LET e == activate_venv_if_requested(flag, is_windows, fs, CurrentEnv)
       IN  /\ PATH' = e.PATH
           /\ sys_executable' = e.sys_executable
           /\ sys_path' = e.sys_path
           /\ e_out' = e.out
    /\ calls' = Append(calls, "service")
    /\ UNCHANGED <<dvars, xvars, rvars, flag, is_windows, fs, handle, venv_check>>

EnsureVirtualenv ==
    /\ Len(calls) < MaxActivations
    /\ LET e == ensure_virtualenv(is_windows, fs, CurrentEnv)
       IN  /\ PATH' = e.PATH
           /\ sys_executable' = e.sys_executable
           /\ sys_path' = e.sys_path
           /\ e_out' = e.out
    /\ calls' = Append(calls, "utils")
    /\ UNCHANGED <<dvars, xvars, rvars, flag, is_windows, fs, handle, venv_check>>


\* import of services/utils.py: the module-level names are set once.
ImportUtils ==
    /\ ~handle.loaded
    /\ handle' = load_handle(fs, is_windows)
    /\ UNCHANGED <<dvars, xvars, rvars, flag, is_windows, fs, PATH, sys_executable, sys_path,
                   calls, venv_check, e_out>>

\* A task starts with check_venv_required().
CheckVenvRequired ==
    /\ handle.loaded
    /\ venv_check' = check_venv_required(handle, fs, is_windows)
    /\ UNCHANGED <<dvars, xvars, rvars, flag, is_windows, fs, PATH, sys_executable, sys_path,
                   calls, handle, e_out>>

(***************************************************************************)
(* Claims about the Command Dispatcher                                     *)
(***************************************************************************)
ExitCodeSet == {0, 1, 130}

IsTrace(e) == e.fn = "traceback.print_exc"

\* C2: true -> 0; false -> 1; user interruption -> 130 with exactly the one-line
\* cancellation notice and no diagnostic trace; any other generic condition -> 1
\* with an error line carrying the message, followed by the diagnostic trace.
C2_OutcomeToExitCode ==
    d_calls > 0 =>
        LET o == dispatch.outcome
            r == dispatch.result
        IN  /\ (o.kind = "return" /\ o.value = PyBool(TRUE)) =>
                    r.returned /\ r.exit_code = 0 /\ r.out = <<>>
            /\ (o.kind = "return" /\ o.value = PyBool(FALSE)) =>
                    r.returned /\ r.exit_code = 1 /\ r.out = <<>>
            /\ (o.kind = "raise" /\ o.cls = "KeyboardInterrupt") =>
                    /\ r.returned /\ r.exit_code = 130
                    /\ Len(r.out) = 1
                    /\ r.out[1].fn = "print_warning"
                    /\ r.out[1].text = "\nOperation cancelled by user."
                    /\ \A i \in 1..Len(r.out) : ~IsTrace(r.out[i])
            /\ (o.kind = "raise" /\ o.cls \in ExceptionClasses) =>
                    /\ r.returned /\ r.exit_code = 1
                    /\ Len(r.out) = 2
                    /\ r.out[1] = Event("print_error", "Error: ", o.msg)
                    /\ IsTrace(r.out[2])
            /\ SubSeq(d_printed, Len(d_printed) - Len(r.out) + 1, Len(d_printed)) = r.out

\* C2 witness: a second call was interrupted after a first call failed with a
\* generic condition; the notice follows the first call's error line and trace.
C2_Witness ==
    /\ d_calls = 2
    /\ dispatch.outcome.cls = "KeyboardInterrupt"
    /\ dispatch.result.exit_code = 130
    /\ Len(d_printed) = 3
    /\ IsTrace(d_printed[2])
    /\ d_printed[3].fn = "print_warning"

(***************************************************************************)
(* Claims about the Process Executor                                       *)
(***************************************************************************)
\* C3 (as stated): run_command never raises past its boundary: every failure of
\* the launch or the run of the child resolves to a returned tuple; a program that
\* is not found is reported as 'command not found' and yields (false, absent).
C3_NeverRaises ==
    x_calls > 0 =>
        /\ exec.result.raised = ""
        /\ exec.child.launch = "not_found" =>
                /\ ~exec.result.ok
                /\ exec.result.output = None
                /\ exec.result.out[Len(exec.result.out)].text = "Command not found: "

C5_PassedPlusFailedIsTotal ==
    phase = "summarized" =>
        /\ summary.passed + summary.failed = summary.total
        /\ summary.total = Len(results)

\* C5 witness: a summary of two entries, one of them structured without a status.
C5_Witness ==
    /\ phase = "summarized"
    /\ Len(results) = 2
    /\ \E i \in 1..2 : results[i].result.isdict /\ "status" \notin results[i].result.has
    /\ \E i \in 1..2 : ~results[i].result.isdict /\ results[i].result.b
    /\ summary.passed = 1
    /\ summary.failed = 1

\* C6: success_rate is 0 when total = 0, equals 100 * passed / total otherwise,
\* and so always lies between 0 and 100.
C6_SuccessRate ==
    phase = "summarized" =>
        LET rate == summary.success_rate IN
        /\ summary.total = 0 => rate = Zero
        /\ summary.total > 0 =>
                /\ rate.den > 0
                /\ rate.num * summary.total = 100 * summary.passed * rate.den
        /\ summary.passed = CountPassed(results)
        /\ 0 <= rate.num
        /\ rate.num <= 100 * rate.den

\* C6 witness: one of two tools passed and the success rate is 50.
C6_Witness ==
    /\ phase = "summarized"
    /\ summary.total = 2
    /\ summary.passed = 1
    /\ summary.success_rate = [num |-> 50, den |-> 1]

\* The normalized structured shape of an entry: all four keys, a plain boolean b
\* as status = b, details = "", errors = 0, warnings = 0.
Normalized(r) ==
    IF r.isdict
    THEN Dict(Keys, GetStatus(r), GetDetails(r), GetErrors(r), GetWarnings(r))
    ELSE Dict(Keys, r.b, <<>>, 0, 0)

\* C7 (as stated): parsing the output of format_results_json yields, for every
\* tool in insertion order, the normalized structured shape of its entry, with the
\* keys status, details, errors and warnings.
C7_JsonRoundTripNormalized ==
    phase = "json" =>
        json_loads(json_out) =
            [i \in 1..Len(results) |->
                [tool |-> results[i].tool, result |-> Normalized(results[i].result)]]

\* The lines of the rendered table and the place of the rows in it.
TableLines == Split(table_out.text, "\n")
FirstRow == IF Len(table_args.title) > 0 THEN 6 ELSE 3
DetailsStart ==
    ToolWidth(results) + (IF table_args.show_status THEN 1 + status_width + ansi_allowance ELSE 0) + 2
ShownDetails(i) ==
    LET row == TableLines[FirstRow + i - 1] IN SubSeq(row, DetailsStart, Len(row))

\* C8 (as stated): the details column is capped at 50 characters: a structured
\* entry whose details are longer than 50 characters (no errors, no warnings)
\* shows exactly the first 50 characters of them in its row.
C8_DetailsCappedAt50 ==
    (phase = "table" /\ table_out.raised = "") =>
        \A i \in 1..Len(results) :
            LET r == results[i].result IN
            (r.isdict /\ Len(GetDetails(r)) > details_width
                /\ GetErrors(r) = 0 /\ GetWarnings(r) = 0)
                => ShownDetails(i) = SubSeq(GetDetails(r), 1, details_width)


(***************************************************************************)
(* Claims about environment activation                                     *)
(***************************************************************************)
\* The entries of the executable search path.
Entries(path) == Split(path, path_sep(is_windows))
Count(x, sq) == Cardinality({i \in 1..Len(sq) : sq[i] = x})
DotVenvBin(module) ==
    PathJoin(is_windows, PathJoin(is_windows, PROJECT_ROOT(module), DotVenv), BinName(is_windows))
LastCall == calls[Len(calls)]

\* C9: activation is idempotent: invoking the same activation operation again
\* leaves the search path, the interpreter reference and the registered import
\* directories as the previous invocation left them; and no invocation makes the
\* binary directory appear more than once in the search path or registers a
\* library directory twice.
C9_ActivationIdempotent ==
    [][/\ (Len(calls) > 0 /\ calls' = Append(calls, LastCall)) =>
            /\ PATH' = PATH
            /\ sys_executable' = sys_executable
            /\ sys_path' = sys_path
       /\ \A m \in Modules :
            Count(DotVenvBin(m), Entries(PATH')) <= Max(1, Count(DotVenvBin(m), Entries(PATH)))
       /\ \A i \in 1..Len(sys_path') :
            Count(sys_path'[i], sys_path') <= Max(1, Count(sys_path'[i], sys_path))]_vars

\* C9 witness: service.py's activation ran twice on a process that started with
\* no search path and no registered library directory; the binary directory is
\* on the path once and lib and lib64 are registered once each.
C9_Witness ==
    /\ calls = <<"service", "service">>
    /\ flag = "1"
    /\ ~is_windows
    /\ Entries(PATH) = <<DotVenvBin("service"), <<>>>>
    /\ sys_executable = PathJoin(is_windows, DotVenvBin("service"), PythonName(is_windows))
    /\ Len(sys_path) = 3
    /\ Count(sys_path[2], sys_path) = 1
    /\ Count(sys_path[3], sys_path) = 1

\* C10 (as stated): whenever the activation flag is set and the Environment
\* Resolver reports that the environment exists, after activation the
\* environment's binary directory is an entry of the search path, at the front
\* if it was not an entry before, and the interpreter reference is the
\* environment's interpreter.
C10_BinDirOnSearchPath ==
    [][\A m \in Modules :
        (calls' = Append(calls, m) /\ flag = "1" /\ venv_exists(fs, m)) =>
            LET bin == VENV_BIN(fs, is_windows, m) IN
            /\ InSeq(bin, Entries(PATH'))
            /\ ~InSeq(bin, Entries(PATH)) => Entries(PATH')[1] = bin
            /\ sys_executable' = PYTHON(fs, is_windows, m)]_vars


(***************************************************************************)
(* Claims about the Environment Resolver                                   *)
(***************************************************************************)
UtilsDir(name) == PathJoin(is_windows, PROJECT_ROOT("utils"), name)

\* C11: the resolver checks the preferred name first and the secondary name
\* second: it gives the preferred directory if it exists, otherwise the secondary
\* directory if it exists, otherwise the preferred name; and venv_exists() is true
\* only if the resolved directory and its interpreter binary both exist, so it is
\* false when neither directory exists.
C11_ResolverOrder ==
    LET dot == fs["utils"].dot
        alt == fs["utils"].alt
    IN  /\ handle.loaded =>
            /\ dot.dir => handle.VENV_DIR = UtilsDir(DotVenv)
            /\ (~dot.dir /\ alt.dir) => handle.VENV_DIR = UtilsDir(Venv)
            /\ (~dot.dir /\ ~alt.dir) => handle.VENV_DIR = UtilsDir(DotVenv)
            /\ handle.VENV_BIN = PathJoin(is_windows, handle.VENV_DIR, BinName(is_windows))
            /\ handle.PYTHON = PathJoin(is_windows, handle.VENV_BIN, PythonName(is_windows))
        /\ (venv_check.called /\ venv_check.exists) =>
            \/ dot.dir /\ dot.python
            \/ ~dot.dir /\ alt.dir /\ alt.python
        /\ (venv_check.called /\ ~dot.dir /\ ~alt.dir) => ~venv_check.exists

\* C11 witness: only the secondary directory exists, with its interpreter; the
\* resolver gave the secondary directory and venv_exists() returned true.
C11_Witness ==
    /\ handle.loaded
    /\ ~fs["utils"].dot.dir
    /\ fs["utils"].alt.dir /\ fs["utils"].alt.python
    /\ handle.VENV_DIR = UtilsDir(Venv)
    /\ venv_check.called
    /\ venv_check.exists
    /\ venv_check.printed = <<>>

\* The environment the activation of `module` looks at is there: the .venv
\* directory under its PROJECT_ROOT and the interpreter binary in it.
EnvPresent(module) == fs[module].dot.dir /\ fs[module].dot.python

LeftAlone ==
    /\ PATH' = PATH
    /\ sys_executable' = sys_executable
    /\ sys_path' = sys_path
    /\ e_out' = e_out
    /\ e_out'.printed = <<>>
    /\ e_out'.raised = ""

IdleResults == InitResults /\ colors
IdleEnv ==
    /\ InitEnv
    /\ flag = "" /\ ~is_windows /\ PATH = <<>> /\ Len(sys_path) = 1
    /\ \A m \in Modules : fs[m].dot = Absent /\ fs[m].alt = Absent

InitDispatchOnly == InitDispatch /\ InitExec /\ IdleResults /\ IdleEnv
NextDispatch == RunServiceCommand
SpecDispatch == InitDispatchOnly /\ [][NextDispatch]_vars

InitExecOnly == InitDispatch /\ InitExec /\ IdleResults /\ IdleEnv
NextExec == RunCommand
SpecExec == InitExecOnly /\ [][NextExec]_vars

InitResultsOnly == InitDispatch /\ InitExec /\ InitResults /\ IdleEnv
NextResults == SetResult \/ Summarize \/ FormatJson \/ FormatTable
SpecResults == InitResultsOnly /\ [][NextResults]_vars

InitResolveOnly ==
    /\ InitDispatch /\ InitExec /\ IdleResults /\ InitEnv
    /\ flag = "" /\ PATH = <<>> /\ Len(sys_path) = 1
NextResolve == ImportUtils \/ CheckVenvRequired
SpecResolve == InitResolveOnly /\ [][NextResolve]_vars

InitEnvOnly == InitDispatch /\ InitExec /\ IdleResults /\ InitEnv
NextEnv == ActivateVenvIfRequested \/ EnsureVirtualenv
SpecEnv == InitEnvOnly /\ [][NextEnv]_vars

====
